---- MODULE Spec2Model ----
(***************************************************************************)
(* InkVerify core: the toroidal Grid container (core/src/grid.rs), the     *)
(* Xorshift32 seeder, the initial fill, the evolution step and the         *)
(* simulation driver (core/src/engine.rs).                                 *)
(*                                                                         *)
(* A Grid is the record [width, height, cells]; cells is the flat          *)
(* row-major Vec, so the 0-based index i of the code is cells[i + 1].      *)
(* A u32 is the set of the positions (0..31) of its one bits, so that      *)
(* shifts, xor and the 32-bit truncation are exact.                        *)
(***************************************************************************)
EXTENDS Integers, Sequences, FiniteSets, TLC

VARIABLES pc, grid, call, ret, panicked, rng, cells, next, tx, ty, step, steps, pre, grid0

vars == <<pc, grid, call, ret, panicked, rng, cells, next, tx, ty, step, steps, pre, grid0>>

----------------------------------------------------------------------------
(* Bounds of the model.                                                    *)

\* largest width and largest height of a simulated grid
MaxDim == 5
\* largest number of cells of a simulated grid
MaxCells == 9
\* largest width and largest height of a grid the API caller constructs
ApiMaxDim == 3
\* largest number of cells of a grid the API caller constructs
ApiMaxCells == 4
\* coordinates passed to get are in -MaxCoord..MaxCoord, to set in 0..MaxCoord
MaxCoord == 4
\* largest number of calls made on one generator
MaxCalls == 3
\* largest step count passed to run_simulation
MaxSteps == 2

Dims == {d \in (1..MaxDim) \X (1..MaxDim) : d[1] * d[2] <= MaxCells}

ApiDims == {d \in (0..ApiMaxDim) \X (0..ApiMaxDim) : d[1] * d[2] <= ApiMaxCells}

CellVals == {0, 1}

RECURSIVE SeqsOfLen(_)
SeqsOfLen(n) == IF n = 0 THEN {<<>>}
                ELSE {Append(s, v) : s \in SeqsOfLen(n - 1), v \in CellVals}

----------------------------------------------------------------------------
(* Grid<u8>                                                                *)

NoGrid == [width |-> 0, height |-> 0, cells |-> <<>>]

NoCall == [op |-> "none", x |-> 0, y |-> 0, v |-> 0, w |-> 0, h |-> 0, cells |-> <<>>]

\* Grid::new: width * height default (0) cells
GridNew(w, h) == [width |-> w, height |-> h, cells |-> [i \in 1..(w * h) |-> 0]]

\* from_raw accepting any buffer that is long enough
FromRawOkAtLeast(w, h, cs) == Len(cs) >= w * h

\* the assert_eq! of Grid::from_raw
FromRawOk(w, h, cs) == Len(cs) = w * h

\* Grid::from_raw, when the assertion passes
GridFromRaw(w, h, cs) == [width |-> w, height |-> h, cells |-> cs]

\* the truncating remainder (Rust's %), whose sign follows the dividend
RemTruncating(a, m) == IF a >= 0 THEN a % m ELSE 0 - ((0 - a) % m)

\* isize::rem_euclid for a positive modulus: the result is in 0..m-1
RemEuclid(a, m) == a % m

\* get_index laying the cells out column by column
GetIndexColumnMajor(g, x, y) ==
    LET y_wrapped == RemEuclid(y, g.height)
        x_wrapped == RemEuclid(x, g.width)
    IN  x_wrapped * g.height + y_wrapped

\* Grid::get_index
GetIndex(g, x, y) ==
    LET y_wrapped == RemEuclid(y, g.height)
        x_wrapped == RemEuclid(x, g.width)
    IN  y_wrapped * g.width + x_wrapped

\* the bounds check of self.cells[idx]
InBuffer(g, idx) == idx >= 0 /\ idx < Len(g.cells)

\* Grid::get panics on a zero modulus (rem_euclid) and on an index outside the buffer
GetPanics(g, x, y) ==
    \/ g.width = 0
    \/ g.height = 0
    \/ ~InBuffer(g, GetIndex(g, x, y))

\* Grid::get, when it does not panic
GridGet(g, x, y) == g.cells[GetIndex(g, x, y) + 1]

\* the flat index Grid::set writes to
SetIndex(g, x, y) == y * g.width + x

\* Grid::set, when the index is inside the buffer
GridSet(g, x, y, v) == [g EXCEPT !.cells[SetIndex(g, x, y) + 1] = v]

----------------------------------------------------------------------------
(* Xorshift32                                                              *)

\* the u32 with the given upper and lower 16 bits
U32(hi, lo) ==
    {i \in 0..15 : (lo \div (2 ^ i)) % 2 = 1} \cup {i + 16 : i \in {j \in 0..15 : (hi \div (2 ^ j)) % 2 = 1}}

\* 0xDEADBEEE
DEADBEEE == U32(57005, 48878)

\* 0xDEADBEEF, the state substituted for a zero seed
DEADBEEF == U32(57005, 48879)

\* x << n on u32: the bits shifted past bit 31 are dropped
Shl(x, n) == {i + n : i \in x} \cap (0..31)

\* x >> n on u32
Shr(x, n) == {i - n : i \in x} \cap (0..31)

\* a ^ b
Xor(a, b) == (a \ b) \cup (b \ a)

\* Xorshift32::new without the zero-seed substitution
XsNewKeepSeed(seed) == seed

\* Xorshift32::new
XsNew(seed) == IF seed = {} THEN DEADBEEF ELSE seed

\* the three shift-xor lines of next_u8
Xorshift(state) ==
    LET x1 == Xor(state, Shl(state, 13))
        x2 == Xor(x1, Shr(x1, 17))
        x3 == Xor(x2, Shl(x2, 5))
    IN  x3

BitWeight(x, i) == IF i \in x THEN 2 ^ i ELSE 0

\* (x & 0xFF) as u8
LowByte(x) ==
    BitWeight(x, 0) + BitWeight(x, 1) + BitWeight(x, 2) + BitWeight(x, 3)
    + BitWeight(x, 4) + BitWeight(x, 5) + BitWeight(x, 6) + BitWeight(x, 7)

\* Xorshift32::next_u8: the new state and the byte returned
NextU8(state) ==
    LET x == Xorshift(state)
    IN  [state |-> x, val |-> LowByte(x)]

\* the threshold of next_bool taken as byte >= 128
BoolOfByteInclusive(b) == IF b >= 128 THEN 1 ELSE 0

\* the threshold of next_bool
BoolOfByte(b) == IF b > 128 THEN 1 ELSE 0

\* Xorshift32::next_bool: the new state, the byte drawn and the value returned
NextBool(state) ==
    LET r == NextU8(state)
    IN  [state |-> r.state, byte |-> r.val, val |-> BoolOfByte(r.val)]

\* a generator: its seed, its state and the history of what its calls returned
Generator(seed) == [seed |-> seed, state |-> XsNew(seed), out |-> <<>>]

AfterNextU8(g) ==
    LET r == NextU8(g.state)
    IN  [g EXCEPT !.state = r.state,
                  !.out = Append(@, [op |-> "u8", byte |-> r.val, val |-> r.val])]

AfterNextBool(g) ==
    LET r == NextBool(g.state)
    IN  [g EXCEPT !.state = r.state,
                  !.out = Append(@, [op |-> "bool", byte |-> r.byte, val |-> r.val])]

----------------------------------------------------------------------------
(* The evolution step                                                      *)

\* the offsets array of count_neighbors
Offsets == <<<<-1, -1>>, <<0, -1>>, <<1, -1>>,
             <<-1, 0>>,             <<1, 0>>,
             <<-1, 1>>,  <<0, 1>>,  <<1, 1>>>>

\* the loop of count_neighbors from offset k on
RECURSIVE CountFrom(_, _, _, _)
CountFrom(g, x, y, k) ==
    IF k > Len(Offsets) THEN 0
    ELSE (IF GridGet(g, x + Offsets[k][1], y + Offsets[k][2]) = 1 THEN 1 ELSE 0)
         + CountFrom(g, x, y, k + 1)

\* count_neighbors counting every live neighbouring cell once
CountDistinctNeighbors(g, x, y) ==
    Cardinality({GetIndex(g, x + Offsets[k][1], y + Offsets[k][2]) : k \in
                   {j \in 1..Len(Offsets) :
                      GridGet(g, x + Offsets[j][1], y + Offsets[j][2]) = 1}})

\* count_neighbors
CountNeighbors(g, x, y) == CountFrom(g, x, y, 1)

\* the match (state, neighbors) of tick
NewState(state, neighbors) ==
    IF (state = 1 /\ neighbors = 2) \/ (state = 1 /\ neighbors = 3) THEN 1
    ELSE IF state = 0 /\ neighbors = 3 THEN 1
    ELSE 0

----------------------------------------------------------------------------
(* The Grid API driven by a caller: a grid is constructed (new, from_raw)  *)
(* and then read and written.  A panic aborts the program.                 *)

RawInputs == UNION {SeqsOfLen(n) : n \in 0..(ApiMaxCells + 1)}

Idle ==
    /\ rng = <<>>
    /\ cells = <<>>
    /\ next = NoGrid
    /\ tx = 0
    /\ ty = 0
    /\ step = 0
    /\ steps = 0
    /\ pre = NoGrid
    /\ grid0 = NoGrid

GridInit ==
    /\ pc = "start"
    /\ grid = NoGrid
    /\ call = NoCall
    /\ ret = 0
    /\ panicked = FALSE
    /\ Idle

NotGrid == <<rng, cells, next, tx, ty, step, steps, pre, grid0>>

CallNew(w, h) ==
    /\ pc = "start"
    /\ call' = [NoCall EXCEPT !.op = "new", !.w = w, !.h = h]
    /\ grid' = GridNew(w, h)
    /\ pc' = "ready"
    /\ UNCHANGED <<ret, panicked, NotGrid>>

CallFromRaw(w, h, cs) ==
    /\ pc = "start"
    /\ call' = [NoCall EXCEPT !.op = "from_raw", !.w = w, !.h = h, !.cells = cs]
    /\ IF FromRawOk(w, h, cs)
       THEN /\ grid' = GridFromRaw(w, h, cs)
            /\ pc' = "ready"
            /\ UNCHANGED panicked
       ELSE /\ panicked' = TRUE
            /\ pc' = "aborted"
            /\ UNCHANGED grid
    /\ UNCHANGED <<ret, NotGrid>>

CallGet(x, y) ==
    /\ pc = "ready"
    /\ call' = [NoCall EXCEPT !.op = "get", !.x = x, !.y = y]
    /\ IF GetPanics(grid, x, y)
       THEN /\ panicked' = TRUE
            /\ pc' = "aborted"
            /\ UNCHANGED ret
       ELSE /\ ret' = GridGet(grid, x, y)
            /\ UNCHANGED <<pc, panicked>>
    /\ UNCHANGED <<grid, NotGrid>>

CallSet(x, y, v) ==
    /\ pc = "ready"
    /\ call' = [NoCall EXCEPT !.op = "set", !.x = x, !.y = y, !.v = v]
    /\ IF InBuffer(grid, SetIndex(grid, x, y))
       THEN /\ grid' = GridSet(grid, x, y, v)
            /\ UNCHANGED <<pc, panicked>>
       ELSE /\ panicked' = TRUE
            /\ pc' = "aborted"
            /\ UNCHANGED grid
    /\ UNCHANGED <<ret, NotGrid>>

GridNext ==
    \/ \E d \in ApiDims : CallNew(d[1], d[2])
    \/ \E w \in 0..ApiMaxDim, h \in 0..ApiMaxDim, cs \in RawInputs : CallFromRaw(w, h, cs)
    \/ \E x \in (0 - MaxCoord)..MaxCoord, y \in (0 - MaxCoord)..MaxCoord : CallGet(x, y)
    \/ \E x \in 0..MaxCoord, y \in 0..MaxCoord, v \in CellVals : CallSet(x, y, v)

SpecGrid == GridInit /\ [][GridNext]_vars

----------------------------------------------------------------------------
(* Claims about the Grid API (checked under SpecGrid).                     *)

\* C1: set(x, y, v) with x >= width or y >= height changes no cell of the
\* grid (it panics instead of writing).
C1_SetOutOfRangeWritesNothing ==
    [][(pc = "ready" /\ call'.op = "set"
          /\ (call'.x >= grid.width \/ call'.y >= grid.height))
       => grid'.cells = grid.cells]_vars

\* the remainder r in 0..m-1 with a = k*m + r, found by search
ModByDef(a, m) ==
    CHOOSE r \in 0..(m - 1) : \E k \in (0 - MaxCoord - 1)..(MaxCoord + 1) : a = k * m + r

\* C2: on a grid with width > 0 and height > 0, get(x, y) never fails and
\* returns the cell at row y mod height, column x mod width of the row-major
\* buffer; get(-1,0) = get(W-1,0), get(W,0) = get(0,0), get(0,-1) = get(0,H-1).
C2_GetIsTotalAndToroidal ==
    (pc # "start" /\ grid.width > 0 /\ grid.height > 0) =>
        /\ call.op = "get" =>
             /\ ~panicked
             /\ ret = grid.cells[ModByDef(call.y, grid.height) * grid.width
                                 + ModByDef(call.x, grid.width) + 1]
        /\ \A p \in {<<<<-1, 0>>, <<grid.width - 1, 0>>>>,
                     <<<<grid.width, 0>>, <<0, 0>>>>,
                     <<<<0, -1>>, <<0, grid.height - 1>>>>} :
             /\ ~GetPanics(grid, p[1][1], p[1][2])
             /\ ~GetPanics(grid, p[2][1], p[2][2])
             /\ GridGet(grid, p[1][1], p[1][2]) = GridGet(grid, p[2][1], p[2][2])

C2_Witness ==
    /\ call.op = "get"
    /\ call.x < 0
    /\ call.y >= grid.height
    /\ grid.width > 1
    /\ grid.height > 1
    /\ ret = 1
    /\ ~panicked

\* C6: from_raw aborts when Len(cells) # width*height and otherwise returns
\* a grid holding exactly those cells; every grid has Len(cells) = width*height.
C6_FromRawChecksLength ==
    /\ (call.op = "from_raw" /\ Len(call.cells) # call.w * call.h) =>
          (panicked /\ pc = "aborted" /\ grid = NoGrid)
    /\ (call.op = "from_raw" /\ Len(call.cells) = call.w * call.h) =>
          (~panicked /\ pc = "ready"
             /\ grid = [width |-> call.w, height |-> call.h, cells |-> call.cells])
    /\ pc # "start" /\ grid # NoGrid => Len(grid.cells) = grid.width * grid.height

C6_Witness ==
    /\ call.op = "from_raw"
    /\ Len(call.cells) > call.w * call.h
    /\ call.w * call.h > 0
    /\ panicked

----------------------------------------------------------------------------
(* Two generators driven side by side, each from a seed of its own.        *)

\* seeds: 0, 1, 2, 3, 136, 171, 12345, 0x80000000, 0xDEADBEEF, 0xFFFFFFFF
Seeds == {U32(0, 0), U32(0, 1), U32(0, 2), U32(0, 3), U32(0, 136), U32(0, 171),
          U32(0, 12345), U32(32768, 0), U32(57005, 48879), U32(65535, 65535)}

NotRng == <<pc, grid, call, ret, panicked, cells, next, tx, ty, step, steps, pre, grid0>>

RngInit ==
    /\ pc = "rng"
    /\ grid = NoGrid
    /\ call = NoCall
    /\ ret = 0
    /\ panicked = FALSE
    /\ \E s1 \in Seeds, s2 \in Seeds : rng = <<Generator(s1), Generator(s2)>>
    /\ cells = <<>>
    /\ next = NoGrid
    /\ tx = 0
    /\ ty = 0
    /\ step = 0
    /\ steps = 0
    /\ pre = NoGrid
    /\ grid0 = NoGrid

CallNextU8(i) ==
    /\ pc = "rng"
    /\ Len(rng[i].out) < MaxCalls
    /\ rng' = [rng EXCEPT ![i] = AfterNextU8(@)]
    /\ UNCHANGED NotRng

CallNextBool(i) ==
    /\ pc = "rng"
    /\ Len(rng[i].out) < MaxCalls
    /\ rng' = [rng EXCEPT ![i] = AfterNextBool(@)]
    /\ UNCHANGED NotRng

RngNext ==
    \/ \E i \in 1..2 : CallNextU8(i)
    \/ \E i \in 1..2 : CallNextBool(i)

SpecRng == RngInit /\ [][RngNext]_vars

\* C8: a generator seeded with 0 and one seeded with 0xDEADBEEF hold the same
\* state and have produced the same bytes after the same number of calls; a
\* generator with a non-zero seed starts in the state equal to its seed.
C8_ZeroSeedIsDeadbeef ==
    /\ \A i \in 1..Len(rng), j \in 1..Len(rng) :
          (rng[i].seed = U32(0, 0) /\ rng[j].seed = U32(57005, 48879)
             /\ Len(rng[i].out) = Len(rng[j].out)) =>
             /\ rng[i].state = rng[j].state
             /\ \A k \in 1..Len(rng[i].out) : rng[i].out[k].byte = rng[j].out[k].byte
    /\ \A i \in 1..Len(rng) :
          (rng[i].seed # U32(0, 0) /\ rng[i].out = <<>>) => rng[i].state = rng[i].seed

C8_Witness ==
    /\ Len(rng) = 2
    /\ rng[1].seed = U32(0, 0)
    /\ rng[2].seed = U32(57005, 48879)
    /\ Len(rng[1].out) = MaxCalls
    /\ Len(rng[2].out) = MaxCalls

\* the byte whose binary digits are bits 0..7 of the state
ByteOfState(x) ==
    CHOOSE b \in 0..255 : \A i \in 0..7 : ((b \div (2 ^ i)) % 2 = 1) <=> (i \in x)

\* C9: next_bool returns 1 exactly when the byte of next_u8 (the low 8 bits of
\* the new state) is greater than 128, else 0; 127 byte values give 1, 129 give 0.
C9_NextBoolThreshold ==
    /\ \A i \in 1..Len(rng) :
          /\ \A k \in 1..Len(rng[i].out) :
                rng[i].out[k].op = "bool" =>
                   /\ rng[i].out[k].val \in {0, 1}
                   /\ (rng[i].out[k].val = 1) <=> (rng[i].out[k].byte > 128)
          /\ rng[i].out # <<>> =>
                rng[i].out[Len(rng[i].out)].byte = ByteOfState(rng[i].state)
    /\ Cardinality({b \in 0..255 : BoolOfByte(b) = 1}) = 127
    /\ Cardinality({b \in 0..255 : BoolOfByte(b) = 0}) = 129
    /\ {b \in 0..255 : BoolOfByte(b) = 1} = 129..255

C9_Witness ==
    \E i \in 1..Len(rng) : \E k \in 1..Len(rng[i].out) :
        /\ rng[i].out[k].op = "bool"
        /\ rng[i].out[k].byte = 128
        /\ rng[i].out[k].val = 0

\* C10: the state of a generator is never 0 (and is a 32-bit value), for every
\* seed and after any number of calls; a state of 0 would map to 0.
C10_StateNeverZero ==
    /\ \A i \in 1..Len(rng) : rng[i].state # {} /\ rng[i].state \subseteq 0..31
    /\ Xorshift({}) = {}

C10_Witness ==
    \E i \in 1..Len(rng) : rng[i].seed = {} /\ Len(rng[i].out) = MaxCalls

----------------------------------------------------------------------------
(* generate_grid_from_seed.  The seed is the first four bytes of the       *)
(* SHA-256 of the credentials, any u32; the fill loop runs width*height    *)
(* times and the buffer is handed to from_raw.                             *)

GenDims == {d \in (0..MaxDim) \X (0..MaxDim) : d[1] * d[2] <= MaxCells}

GenInit ==
    /\ pc = "gen_fill"
    /\ grid = NoGrid
    /\ \E d \in GenDims : call = [NoCall EXCEPT !.op = "generate", !.w = d[1], !.h = d[2]]
    /\ ret = 0
    /\ panicked = FALSE
    /\ \E s \in Seeds : rng = <<Generator(s)>>
    /\ cells = <<>>
    /\ next = NoGrid
    /\ tx = 0
    /\ ty = 0
    /\ step = 0
    /\ steps = 0
    /\ pre = NoGrid
    /\ grid0 = NoGrid

\* one iteration of the fill loop: cells.push(rng.next_bool())
GenPush ==
    /\ pc = "gen_fill"
    /\ Len(cells) < call.w * call.h
    /\ rng' = [rng EXCEPT ![1] = AfterNextBool(@)]
    /\ cells' = Append(cells, NextBool(rng[1].state).val)
    /\ UNCHANGED <<pc, grid, call, ret, panicked, next, tx, ty, step, steps, pre, grid0>>

\* the loop is over: Grid::from_raw(width, height, cells)
GenFinish ==
    /\ pc = "gen_fill"
    /\ Len(cells) = call.w * call.h
    /\ IF FromRawOk(call.w, call.h, cells)
       THEN /\ grid' = GridFromRaw(call.w, call.h, cells)
            /\ pc' = "gen_done"
            /\ UNCHANGED panicked
       ELSE /\ panicked' = TRUE
            /\ pc' = "aborted"
            /\ UNCHANGED grid
    /\ UNCHANGED <<call, ret, rng, cells, next, tx, ty, step, steps, pre, grid0>>

GenNext == GenPush \/ GenFinish

SpecGen == GenInit /\ [][GenNext]_vars

\* C7: the fill draws one next_bool value per cell, width*height in all, and
\* get(x, y) of the result is the (y*width + x + 1)-th value drawn.
C7_FillIsRowMajor ==
    /\ pc = "gen_fill" =>
          /\ Len(rng[1].out) = Len(cells)
          /\ Len(cells) <= call.w * call.h
    /\ pc = "gen_done" =>
          /\ Len(rng[1].out) = call.w * call.h
          /\ \A k \in 1..Len(rng[1].out) : rng[1].out[k].op = "bool"
          /\ grid.width = call.w
          /\ grid.height = call.h
          /\ \A x \in 0..(call.w - 1), y \in 0..(call.h - 1) :
                GridGet(grid, x, y) = rng[1].out[y * call.w + x + 1].val

C7_Witness ==
    /\ pc = "gen_done"
    /\ call.w >= 2
    /\ call.h >= 3
    /\ GridGet(grid, 1, 0) # GridGet(grid, 0, 1)

----------------------------------------------------------------------------
(* run_simulation and tick, one cell of the double loop per step.          *)

RECURSIVE GridsOf(_)
GridsOf(ds) ==
    IF ds = {} THEN {}
    ELSE LET d == CHOOSE e \in ds : TRUE
         IN  {[width |-> d[1], height |-> d[2], cells |-> cs] : cs \in SeqsOfLen(d[1] * d[2])}
             \cup GridsOf(ds \ {d})

\* the 5x5 grid of zeros
Zero5x5 == [width |-> 5, height |-> 5,
            cells |-> <<0, 0, 0, 0, 0,
                        0, 0, 0, 0, 0,
                        0, 0, 0, 0, 0,
                        0, 0, 0, 0, 0,
                        0, 0, 0, 0, 0>>]

\* the 5x5 grid with the horizontal blinker in row 2
Blinker5x5 == [width |-> 5, height |-> 5,
               cells |-> <<0, 0, 0, 0, 0,
                           0, 0, 0, 0, 0,
                           0, 1, 1, 1, 0,
                           0, 0, 0, 0, 0,
                           0, 0, 0, 0, 0>>]

SimGrids == GridsOf(Dims) \cup {Zero5x5, Blinker5x5}

SimInit ==
    /\ pc = "run_loop"
    /\ grid \in SimGrids
    /\ grid0 = grid
    /\ steps \in 0..MaxSteps
    /\ step = 0
    /\ call = NoCall
    /\ ret = 0
    /\ panicked = FALSE
    /\ rng = <<>>
    /\ cells = <<>>
    /\ next = NoGrid
    /\ tx = 0
    /\ ty = 0
    /\ pre = NoGrid

\* head of the loop of run_simulation, entered one time too many
RunLoopInclusive ==
    /\ pc = "run_loop"
    /\ IF step <= steps
       THEN /\ next' = GridNew(grid.width, grid.height)
            /\ tx' = 0
            /\ ty' = 0
            /\ pre' = grid
            /\ pc' = "tick"
       ELSE /\ pc' = "done"
            /\ UNCHANGED <<next, tx, ty, pre>>
    /\ UNCHANGED <<grid, call, ret, panicked, rng, cells, step, steps, grid0>>

\* head of the loop of run_simulation: call tick (which allocates next), or
\* return the grid
RunLoop ==
    /\ pc = "run_loop"
    /\ IF step < steps
       THEN /\ next' = GridNew(grid.width, grid.height)
            /\ tx' = 0
            /\ ty' = 0
            /\ pre' = grid
            /\ pc' = "tick"
       ELSE /\ pc' = "done"
            /\ UNCHANGED <<next, tx, ty, pre>>
    /\ UNCHANGED <<grid, call, ret, panicked, rng, cells, step, steps, grid0>>

\* the loop body of tick writing into the grid it reads
TickCellInPlace ==
    /\ pc = "tick"
    /\ ty < grid.height
    /\ tx < grid.width
    /\ LET neighbors == CountNeighbors(grid, tx, ty)
           state == GridGet(grid, tx, ty)
           new_state == NewState(state, neighbors)
       IN  /\ grid' = GridSet(grid, tx, ty, new_state)
           /\ next' = GridSet(next, tx, ty, new_state)
           /\ UNCHANGED <<pc, panicked>>
    /\ IF tx + 1 < grid.width
       THEN tx' = tx + 1 /\ ty' = ty
       ELSE tx' = 0 /\ ty' = ty + 1
    /\ UNCHANGED <<call, ret, rng, cells, step, steps, pre, grid0>>

\* the loop body of tick for the cell (tx, ty)
TickCell ==
    /\ pc = "tick"
    /\ ty < grid.height
    /\ tx < grid.width
    /\ LET neighbors == CountNeighbors(grid, tx, ty)
           state == GridGet(grid, tx, ty)
           new_state == NewState(state, neighbors)
       IN  IF InBuffer(next, SetIndex(next, tx, ty))
           THEN /\ next' = GridSet(next, tx, ty, new_state)
                /\ UNCHANGED <<pc, panicked>>
           ELSE /\ panicked' = TRUE
                /\ pc' = "aborted"
                /\ UNCHANGED next
    /\ IF tx + 1 < grid.width
       THEN tx' = tx + 1 /\ ty' = ty
       ELSE tx' = 0 /\ ty' = ty + 1
    /\ UNCHANGED <<grid, call, ret, rng, cells, step, steps, pre, grid0>>

\* tick returns next, and run_simulation assigns it to grid
TickReturn ==
    /\ pc = "tick"
    /\ ty = grid.height
    /\ grid' = next
    /\ next' = NoGrid
    /\ step' = step + 1
    /\ pc' = "run_loop"
    /\ UNCHANGED <<call, ret, panicked, rng, cells, tx, ty, steps, pre, grid0>>

SimNext == RunLoop \/ TickCell \/ TickReturn

SpecSim == SimInit /\ [][SimNext]_vars

----------------------------------------------------------------------------
(* Claims about the simulation (checked under SpecSim).                    *)

\* a coordinate one past a border, brought back onto the torus
OnTorus(a, m) == IF a < 0 THEN a + m ELSE IF a >= m THEN a - m ELSE a

MooreOffsets == {o \in (-1..1) \X (-1..1) : o # <<0, 0>>}

\* the number of Moore offsets whose wrapped cell is 1
LiveOffsets(g, x, y) ==
    Cardinality({o \in MooreOffsets :
        g.cells[OnTorus(y + o[2], g.height) * g.width + OnTorus(x + o[1], g.width) + 1] = 1})

\* Conway's rule for the cell (x, y) of g
LifeCell(g, x, y) ==
    LET old == g.cells[y * g.width + x + 1]
        n == LiveOffsets(g, x, y)
    IN  IF (old = 1 /\ n \in {2, 3}) \/ (old = 0 /\ n = 3) THEN 1 ELSE 0

\* Conway's rule applied to every cell of g
LifeStep(g) ==
    [width |-> g.width, height |-> g.height,
     cells |-> [i \in 1..(g.width * g.height) |->
                  LifeCell(g, (i - 1) % g.width, (i - 1) \div g.width)]]

RECURSIVE LifeSteps(_, _)
LifeSteps(g, n) == IF n = 0 THEN g ELSE LifeSteps(LifeStep(g), n - 1)

\* the 5x5 grid with ones exactly at the given cells
Only5x5(live) ==
    [width |-> 5, height |-> 5,
     cells |-> [i \in 1..25 |-> IF <<(i - 1) % 5, (i - 1) \div 5>> \in live THEN 1 ELSE 0]]

\* C3: tick returns a grid of the same dimensions whose every cell follows
\* Conway's rule on the 8 toroidally wrapped Moore offsets of the old grid,
\* each offset counted separately; the zero 5x5 grid stays zero and the
\* horizontal 5x5 blinker becomes the vertical one.
C3_TickIsLifeOnTorus ==
    (pc \in {"run_loop", "done"} /\ step > 0) =>
        /\ grid = LifeStep(pre)
        /\ grid.width = pre.width
        /\ grid.height = pre.height
        /\ pre = Only5x5({}) => grid = Only5x5({})
        /\ pre = Only5x5({<<1, 2>>, <<2, 2>>, <<3, 2>>}) =>
              grid = Only5x5({<<2, 1>>, <<2, 2>>, <<2, 3>>})

C3_Witness ==
    /\ pc = "run_loop"
    /\ step = 1
    /\ pre = Only5x5({<<1, 2>>, <<2, 2>>, <<3, 2>>})
    /\ grid = Only5x5({<<2, 1>>, <<2, 2>>, <<2, 3>>})

\* C4: while tick runs, the grid it reads is not changed; each step writes
\* one cell of the new grid, and the value written is the rule applied to the
\* grid as it was before the step began.
C4_TickLeavesCurrentUnchanged ==
    [][(pc = "tick" /\ pc' = "tick") =>
          /\ grid = pre
          /\ grid' = grid
          /\ next'.width = next.width
          /\ next'.height = next.height
          /\ Len(next'.cells) = Len(next.cells)
          /\ \A i \in 1..Len(next.cells) :
                IF i = ty * pre.width + tx + 1
                THEN next'.cells[i] = LifeCell(pre, tx, ty)
                ELSE next'.cells[i] = next.cells[i]]_vars

C4_Witness ==
    /\ pc = "tick"
    /\ ty >= 1
    /\ grid = pre
    /\ \E i \in 1..Len(next.cells) : next.cells[i] = 1 /\ grid.cells[i] = 0
    /\ \E i \in 1..Len(next.cells) : next.cells[i] = 0 /\ grid.cells[i] = 1

\* C5: run_simulation(grid, steps) returns the grid obtained by applying the
\* step exactly steps times in sequence; for steps = 0 the input grid.
C5_RunAppliesStepStepsTimes ==
    pc = "done" =>
        /\ step = steps
        /\ grid = LifeSteps(grid0, steps)
        /\ steps = 0 => grid = grid0

C5_Witness ==
    /\ pc = "done"
    /\ steps >= 2
    /\ grid # grid0
    /\ grid # LifeStep(grid0)
    /\ LifeStep(grid) # grid

====
